---------------------------- MODULE Spec2Model ----------------------------
(***************************************************************************)
(* The ndtpso_slam node (ndtpso_slam_node.cpp): the scan callback          *)
(* scan_mathcher, the subscription that feeds it and the spin/publish loop *)
(* of main.  NDTFrame (ndtpso_slam/ndtframe.h) is not part of the file; its *)
(* operations are modelled from the written specification on a small       *)
(* integer grid.                                                           *)
(*                                                                         *)
(* Lengths are integers (grid units), angles are quarter turns in -1..2,   *)
(* i.e. (-pi, pi].  A pose is <<x, y, theta>>.                             *)
(***************************************************************************)
EXTENDS Integers, Sequences, FiniteSets, Bags, TLC

\* ------------------------------------------------------------------ bounds
\* scans the sensor publishes in a run of Spec
MaxScans == 4
\* calls of scan_mathcher in a run of SpecCallers
CallerScans == 3
\* scans the sensor publishes in a run of SpecLong
LongScans == 11
\* threads that invoke scan_mathcher concurrently in SpecCallers
NumCallers == 2
\* calls of scan_mathcher in a run of FairCallers
FairScans == 2

\* ------------------------------------------------- configuration (main)
SAVE_DATA_TO_FILE_EACH_NUM_ITERS == 10
\* "frame_size" parameter
param_frame_size == 8
\* "cell_side" parameter
param_cell_side == 2
\* "map_size" parameter
param_map_size == 4
\* a cell is scored once it holds this many points
MinCount == 3
\* range_max of the scans of the modelled sensor
RangeMax == 4

ZeroPose == <<0, 0, 0>>

\* ------------------------------------------------------------- geometry
NormAngle(k) == ((k + 1) % 4) - 1

Rot(k, p) ==
    CASE NormAngle(k) = 0  -> p
      [] NormAngle(k) = 1  -> <<-p[2], p[1]>>
      [] NormAngle(k) = 2  -> <<-p[1], -p[2]>>
      [] NormAngle(k) = -1 -> <<p[2], -p[1]>>

\* the point p of a frame at pose `pose`, in the coordinates of the world
TransformPoint(pose, p) ==
    LET r == Rot(pose[3], p) IN <<pose[1] + r[1], pose[2] + r[2]>>

\* pose (+) offset: composition of two planar rigid transforms
Compose(pose, off) ==
    LET r == Rot(pose[3], <<off[1], off[2]>>)
    IN  <<pose[1] + r[1], pose[2] + r[2], NormAngle(pose[3] + off[3])>>

\* range/bearing sample i (1-based) of a scan as a point of the sensor
PolarToPoint(r, k) == Rot(k, <<r, 0>>)

\* tf::Quaternion::setRPY(0, 0, yaw), components scaled by 1000
\* (sin and cos of yaw/2; 707 stands for sqrt(2)/2)
QuatOfYaw(k) ==
    CASE NormAngle(k) = 0  -> <<0, 0, 0, 1000>>
      [] NormAngle(k) = 1  -> <<0, 0, 707, 707>>
      [] NormAngle(k) = 2  -> <<0, 0, 1000, 0>>
      [] NormAngle(k) = -1 -> <<0, 0, -707, 707>>

\* ------------------------------------------------------------- NDTFrame
SumOver(S, f) == BagCardinality([x \in {y \in S : f[y] > 0} |-> f[x]])

\* the points a frame of extent `size` can hold (the frame is centred on 0)
Extent(size) == ((0 - size \div 2) .. (size \div 2 - 1)) \X
                ((0 - size \div 2) .. (size \div 2 - 1))

InExtent(f, p) == p \in Extent(f.size)

\* grid index of the cell of frame f that holds point p
CellOf(f, p) == <<(p[1] + f.size \div 2) \div f.cell_side,
                  (p[2] + f.size \div 2) \div f.cell_side>>

\* NDTFrame(origin, width, height, cell_side, is_reference): an empty grid.
\* pts is the bag of points the cells hold and poses the trajectory appended
\* by addPose; src (history) lists the stamps of the scans whose points were
\* inserted, one entry per loadLaser or update.
NewFrame(origin, size, cell_side, is_ref) ==
    [origin |-> origin, size |-> size, cell_side |-> cell_side,
     is_ref |-> is_ref, trans |-> ZeroPose,
     pts |-> [p \in Extent(size) |-> 0], src |-> <<>>, poses |-> <<>>]

setTrans(f, t) == [f EXCEPT !.trans = t]

NumPoints(f) == SumOver(DOMAIN f.pts, f.pts)

IsEmptyFrame(f) == \A p \in DOMAIN f.pts : f.pts[p] = 0

\* number of points in the cell of f that holds p
CellCount(f, p) ==
    LET same == UNION {{q \in DOMAIN f.pts : CellOf(f, q) = c} :
                          c \in {CellOf(f, p)}}
    IN  SumOver(same, f.pts)

\* insert every point of the sequence ps that lies in the extent of f
RECURSIVE InsertAll(_, _)
InsertAll(pts, ps) ==
    IF ps = <<>> THEN pts
    ELSE LET p == Head(ps)
             nxt == IF p \in DOMAIN pts
                    THEN [pts EXCEPT ![p] = @ + 1] ELSE pts
         IN  InsertAll(nxt, Tail(ps))

\* usable samples: finite, > 0 and < range_max (0 stands for an unusable one)
Usable(scan, i) == scan.ranges[i] > 0 /\ scan.ranges[i] < scan.range_max

RECURSIVE ScanPointsFrom(_, _)
ScanPointsFrom(scan, i) ==
    IF i > Len(scan.ranges) THEN <<>>
    ELSE (IF Usable(scan, i)
          THEN <<PolarToPoint(scan.ranges[i],
                              scan.angle_min + (i - 1) * scan.angle_increment)>>
          ELSE <<>>) \o ScanPointsFrom(scan, i + 1)

ScanPoints(scan) == ScanPointsFrom(scan, 1)

MapTransform(pose, ps) == [i \in 1..Len(ps) |-> TransformPoint(pose, ps[i])]

\* loadLaser: the usable samples of the scan, moved by the frame's offset,
\* clipped to the frame's extent
loadLaser(f, scan) ==
    [f EXCEPT !.pts = InsertAll(@, MapTransform(f.trans, ScanPoints(scan))),
              !.src = Append(@, scan.stamp)]

\* the points a frame holds, as a sequence (in a fixed order)
RECURSIVE BagToSeq(_, _)
BagToSeq(S, pts) ==
    IF S = {} THEN <<>>
    ELSE LET p == CHOOSE q \in S : TRUE
         IN  [i \in 1..pts[p] |-> p] \o BagToSeq(S \ {p}, pts)

FramePoints(f) == BagToSeq({p \in DOMAIN f.pts : f.pts[p] > 0}, f.pts)

\* update (fuse): every point of `other`, moved by pose, is inserted
update(f, pose, other) ==
    [f EXCEPT !.pts = InsertAll(@, MapTransform(pose, FramePoints(other))),
              !.src = @ \o other.src]

\* score of one point under the cells of f: 0 outside f and in a cell with
\* fewer than MinCount points, 1 in a scored cell
PointScore(f, p) ==
    IF \E q \in {p} : InExtent(f, q) /\ CellCount(f, q) >= MinCount
    THEN 1 ELSE 0

SumScores(f, ps) ==
    SumOver(1..Len(ps), [i \in 1..Len(ps) |-> PointScore(f, ps[i])])

\* evaluate: aggregate score of the points of `other`, moved by pose
evaluate(f, pose, other) ==
    CHOOSE n \in {SumScores(f, ps) :
                    ps \in {MapTransform(pose, FramePoints(other))}} : TRUE

\* pose offsets the swarm searches
Offsets == {<<dx, 0, dth>> : dx \in {-2, 0, 2}, dth \in {0, 2}}

Candidates(prev) == {Compose(prev, off) : off \in Offsets}

\* align: the swarm's best pose when a particle improved on the zero offset,
\* the previous pose otherwise; which improving poses the particles visit
\* is random
AlignResults(f, prev, other) ==
    {prev} \cup {c \in Candidates(prev) :
                    evaluate(f, c, other) > evaluate(f, prev, other)}

addPose(f, stamp, pose) == [f EXCEPT !.poses = Append(@, <<stamp, pose>>)]

\* ------------------------------------------------------------ the node
VARIABLES
    pc,               \* position of every thread of control
    arg,              \* the scan a thread's scan_mathcher call was given
    matcher_mutex,    \* owner of the mutex, or Free
    first_iteration, number_of_iters, iter_num,
    previous_pose, current_pose,
    current_frame, ref_frame, global_map,
    current_pub_pose, \* the PoseStamped the callback fills in
    queue,            \* subscription queue of laser_sub
    initial_trans,    \* the base_link -> laser transform found at start-up
    pose_out, tf_out, \* last message on "pose", last transform broadcast
    sent,             \* history: the scans published by the sensor so far
    dropped,          \* history: stamps of the scans the queue discarded
    handled           \* history: stamps in the order their cycle began

vars == <<pc, arg, matcher_mutex, first_iteration, number_of_iters, iter_num,
          previous_pose, current_pose, current_frame, ref_frame, global_map,
          current_pub_pose, queue, initial_trans, pose_out, tf_out,
          sent, dropped, handled>>

MainThread == 0
Callers == 1..NumCallers
Free == -1
NoScan == [stamp |-> 0, ranges |-> <<>>, angle_min |-> 0,
           angle_increment |-> 0, range_max |-> 0]

\* queue_size argument of nh.subscribe
QueueSize == 1

initial_pose == ZeroPose

\* the samples of the scans the sensor can publish: one with no usable
\* sample (0 is not > 0, RangeMax is not < range_max), two with usable ones
ScanRanges == {<<0, RangeMax>>, <<1, 1>>, <<3, 0>>}
FewScanRanges == {<<0, RangeMax>>, <<1, 1>>}
\* scans that see the same corner from ahead and from behind
TurnScanRanges == {<<1, 1>>, <<0, 0, 1>>}

\* sensor mounts the transform lookup can return
Mounts == {ZeroPose, <<1, 0, 0>>}

MakeScan(stamp, ranges) ==
    [stamp |-> stamp, ranges |-> ranges, angle_min |-> 0,
     angle_increment |-> 1, range_max |-> RangeMax]

\* a default-constructed geometry_msgs::PoseStamped
DefaultPoseStamped ==
    [stamp |-> 0, frame_id |-> "", x |-> 0, y |-> 0, z |-> 0,
     q |-> <<0, 0, 0, 0>>]

NoTransform == [x |-> 0, y |-> 0, q |-> <<0, 0, 0, 0>>, sent |-> FALSE]

\* state at the end of the set-up part of main, for the threads `threads`
\* all at position `at`
InitWith(threads, at) ==
    /\ pc = [t \in threads |-> at]
    /\ arg = [t \in threads |-> NoScan]
    /\ matcher_mutex = Free
    /\ first_iteration = TRUE
    /\ number_of_iters = 0
    /\ iter_num = 0
    /\ initial_trans \in Mounts
    /\ ref_frame = NewFrame(ZeroPose, param_frame_size, param_cell_side, TRUE)
    /\ global_map = NewFrame(ZeroPose, param_map_size, param_map_size, FALSE)
    /\ current_frame =
          setTrans(NewFrame(initial_pose, param_frame_size, param_cell_side,
                            FALSE), initial_trans)
    /\ previous_pose = ZeroPose
    /\ current_pose = ZeroPose
    /\ current_pub_pose = DefaultPoseStamped
    /\ queue = <<>>
    /\ pose_out = DefaultPoseStamped
    /\ tf_out = NoTransform
    /\ sent = <<>>
    /\ dropped = {}
    /\ handled = <<>>

Init == InitWith({MainThread}, "spin")

InitCallers == InitWith(Callers, "idle")

Goto(t, l) == pc' = [pc EXCEPT ![t] = l]

\* ---- the sensor and the subscription
\* a full queue that keeps its entry and discards the scan that arrives
PublishDropNewest(ranges, limit) ==
    /\ Len(sent) < limit
    /\ LET scan == MakeScan(Len(sent) + 1, ranges) IN
        /\ sent' = Append(sent, scan)
        /\ IF Len(queue) >= QueueSize
           THEN /\ queue' = queue
                /\ dropped' = dropped \cup {scan.stamp}
           ELSE /\ queue' = Append(queue, scan)
                /\ dropped' = dropped
    /\ UNCHANGED <<pc, arg, matcher_mutex, first_iteration, number_of_iters,
                   iter_num, previous_pose, current_pose, current_frame,
                   ref_frame, global_map, current_pub_pose, initial_trans,
                   pose_out, tf_out, handled>>

\* a scan is published: it enters the subscription queue, whose oldest
\* entry is discarded when the queue is full
Publish(ranges, limit) ==
    /\ Len(sent) < limit
    /\ LET scan == MakeScan(Len(sent) + 1, ranges) IN
        /\ sent' = Append(sent, scan)
        /\ IF Len(queue) >= QueueSize
           THEN /\ queue' = Append(Tail(queue), scan)
                /\ dropped' = dropped \cup {Head(queue).stamp}
           ELSE /\ queue' = Append(queue, scan)
                /\ dropped' = dropped
    /\ UNCHANGED <<pc, arg, matcher_mutex, first_iteration, number_of_iters,
                   iter_num, previous_pose, current_pose, current_frame,
                   ref_frame, global_map, current_pub_pose, initial_trans,
                   pose_out, tf_out, handled>>

Arrive == \E r \in ScanRanges : Publish(r, MaxScans)

\* ---- scan_mathcher, run by thread t on the scan arg[t]
\* where a thread goes when its call returns
AfterCall(t) == IF t = MainThread THEN "publish" ELSE "idle"

InCycle == {"load", "match", "accept", "fuse_ref", "fuse_map", "add_pose",
            "pub_hdr", "pub_x", "pub_y", "pub_ori", "realloc", "finish",
            "unlock"}

\* a lock() that does not wait for the owner to release the mutex
LockNoWait(t) ==
    /\ pc[t] = "lock"
    /\ matcher_mutex' = t
    /\ handled' = Append(handled, arg[t].stamp)
    /\ Goto(t, "load")
    /\ UNCHANGED <<arg, first_iteration, number_of_iters, iter_num,
                   previous_pose, current_pose, current_frame, ref_frame,
                   global_map, current_pub_pose, queue, initial_trans,
                   pose_out, tf_out, sent, dropped>>

\* matcher_mutex.lock()
Lock(t) ==
    /\ pc[t] = "lock"
    /\ matcher_mutex = Free
    /\ matcher_mutex' = t
    /\ handled' = Append(handled, arg[t].stamp)
    /\ Goto(t, "load")
    /\ UNCHANGED <<arg, first_iteration, number_of_iters, iter_num,
                   previous_pose, current_pose, current_frame, ref_frame,
                   global_map, current_pub_pose, queue, initial_trans,
                   pose_out, tf_out, sent, dropped>>

\* a callback that returns early, mutex still locked, when the scan has no
\* usable sample
LoadReturnOnEmpty(t) ==
    /\ pc[t] = "load"
    /\ IF ScanPoints(arg[t]) = <<>>
       THEN /\ Goto(t, AfterCall(t))
            /\ UNCHANGED current_frame
       ELSE /\ current_frame' = loadLaser(current_frame, arg[t])
            /\ Goto(t, "match")
    /\ UNCHANGED <<arg, matcher_mutex, first_iteration, number_of_iters,
                   iter_num, previous_pose, current_pose, ref_frame,
                   global_map, current_pub_pose, queue, initial_trans,
                   pose_out, tf_out, sent, dropped, handled>>

\* a loadLaser that also fuses the new scan into ref_frame, ahead of align
LoadThenFuse(t) ==
    /\ pc[t] = "load"
    /\ current_frame' = loadLaser(current_frame, arg[t])
    /\ ref_frame' = update(ref_frame, previous_pose,
                           loadLaser(current_frame, arg[t]))
    /\ Goto(t, "match")
    /\ UNCHANGED <<arg, matcher_mutex, first_iteration, number_of_iters,
                   iter_num, previous_pose, current_pose, global_map,
                   current_pub_pose, queue, initial_trans, pose_out, tf_out,
                   sent, dropped, handled>>

\* current_frame->loadLaser(...)
Load(t) ==
    /\ pc[t] = "load"
    /\ current_frame' = loadLaser(current_frame, arg[t])
    /\ Goto(t, "match")
    /\ UNCHANGED <<arg, matcher_mutex, first_iteration, number_of_iters,
                   iter_num, previous_pose, current_pose, ref_frame,
                   global_map, current_pub_pose, queue, initial_trans,
                   pose_out, tf_out, sent, dropped, handled>>

\* an align that starts from initial_pose instead of previous_pose
MatchedPosesFromInitial ==
    IF first_iteration THEN {previous_pose}
    ELSE AlignResults(ref_frame, initial_pose, current_frame)

\* a pose of the search taken without comparing it with the previous pose
MatchedPosesUncompared ==
    IF first_iteration THEN {previous_pose}
    ELSE Candidates(previous_pose)

\* the poses the if (first_iteration) ... else ... can assign to current_pose
MatchedPoses ==
    IF first_iteration THEN {previous_pose}
    ELSE AlignResults(ref_frame, previous_pose, current_frame)

Match(t) ==
    /\ pc[t] = "match"
    /\ current_pose' \in MatchedPoses
    /\ Goto(t, "accept")
    /\ UNCHANGED <<arg, matcher_mutex, first_iteration, number_of_iters,
                   iter_num, previous_pose, current_frame, ref_frame,
                   global_map, current_pub_pose, queue, initial_trans,
                   pose_out, tf_out, sent, dropped, handled>>

\* previous_pose = current_pose
Accept(t) ==
    /\ pc[t] = "accept"
    /\ previous_pose' = current_pose
    /\ Goto(t, "fuse_ref")
    /\ UNCHANGED <<arg, matcher_mutex, first_iteration, number_of_iters,
                   iter_num, current_pose, current_frame, ref_frame,
                   global_map, current_pub_pose, queue, initial_trans,
                   pose_out, tf_out, sent, dropped, handled>>

\* ref_frame->update(current_pose, current_frame)
FuseRef(t) ==
    /\ pc[t] = "fuse_ref"
    /\ ref_frame' = update(ref_frame, current_pose, current_frame)
    /\ Goto(t, "fuse_map")
    /\ UNCHANGED <<arg, matcher_mutex, first_iteration, number_of_iters,
                   iter_num, previous_pose, current_pose, current_frame,
                   global_map, current_pub_pose, queue, initial_trans,
                   pose_out, tf_out, sent, dropped, handled>>

\* a test that lets every cycle fuse into global_map
MapDueAlways(n) == n >= 0

\* a test that fuses into global_map in the tenth, twentieth, ... cycle
MapDueOnTenth(n) == n = SAVE_DATA_TO_FILE_EACH_NUM_ITERS - 1

\* whether this cycle fuses into global_map
MapDue(n) == n = 0

\* if (iter_num == 0) global_map->update(...); iter_num = (iter_num + 1) % ...
FuseMap(t) ==
    /\ pc[t] = "fuse_map"
    /\ global_map' = IF MapDue(iter_num)
                     THEN update(global_map, current_pose, current_frame)
                     ELSE global_map
    /\ iter_num' = (iter_num + 1) % SAVE_DATA_TO_FILE_EACH_NUM_ITERS
    /\ Goto(t, "add_pose")
    /\ UNCHANGED <<arg, matcher_mutex, first_iteration, number_of_iters,
                   previous_pose, current_pose, current_frame, ref_frame,
                   current_pub_pose, queue, initial_trans, pose_out, tf_out,
                   sent, dropped, handled>>

\* an addPose placed under the test that guards the fusion into global_map
\* (iter_num has been advanced by then)
AddPoseWhenDue(t) ==
    /\ pc[t] = "add_pose"
    /\ global_map' = IF iter_num = 1
                     THEN addPose(global_map, arg[t].stamp, current_pose)
                     ELSE global_map
    /\ Goto(t, "pub_hdr")
    /\ UNCHANGED <<arg, matcher_mutex, first_iteration, number_of_iters,
                   iter_num, previous_pose, current_pose, current_frame,
                   ref_frame, current_pub_pose, queue, initial_trans,
                   pose_out, tf_out, sent, dropped, handled>>

\* global_map->addPose(scan->header.stamp.toSec(), current_pose)
AddPose(t) ==
    /\ pc[t] = "add_pose"
    /\ global_map' = addPose(global_map, arg[t].stamp, current_pose)
    /\ Goto(t, "pub_hdr")
    /\ UNCHANGED <<arg, matcher_mutex, first_iteration, number_of_iters,
                   iter_num, previous_pose, current_pose, current_frame,
                   ref_frame, current_pub_pose, queue, initial_trans,
                   pose_out, tf_out, sent, dropped, handled>>

\* the assignments to current_pub_pose, in program order
PubField(t, at, next, msg) ==
    /\ pc[t] = at
    /\ current_pub_pose' = msg
    /\ Goto(t, next)
    /\ UNCHANGED <<arg, matcher_mutex, first_iteration, number_of_iters,
                   iter_num, previous_pose, current_pose, current_frame,
                   ref_frame, global_map, queue, initial_trans, pose_out,
                   tf_out, sent, dropped, handled>>

PubHdr(t) ==
    PubField(t, "pub_hdr", "pub_x",
             [current_pub_pose EXCEPT !.stamp = arg[t].stamp,
                                      !.frame_id = "map"])

PubX(t) ==
    PubField(t, "pub_x", "pub_y",
             [current_pub_pose EXCEPT !.x = current_pose[1]])

PubY(t) ==
    PubField(t, "pub_y", "pub_ori",
             [current_pub_pose EXCEPT !.y = current_pose[2], !.z = 0])

\* an orientation that is left at the identity quaternion
PubOriIdentity(t) ==
    PubField(t, "pub_ori", "realloc",
             [current_pub_pose EXCEPT !.q = QuatOfYaw(0)])

PubOri(t) ==
    PubField(t, "pub_ori", "realloc",
             [current_pub_pose EXCEPT !.q = QuatOfYaw(current_pose[3])])

\* a reallocation that replaces the reference frame, not the local one
ReallocRef(t) ==
    /\ pc[t] = "realloc"
    /\ ref_frame' = NewFrame(initial_pose, param_frame_size,
                             param_frame_size, FALSE)
    /\ Goto(t, "finish")
    /\ UNCHANGED <<arg, matcher_mutex, first_iteration, number_of_iters,
                   iter_num, previous_pose, current_pose, current_frame,
                   global_map, current_pub_pose, queue, initial_trans,
                   pose_out, tf_out, sent, dropped, handled>>

\* a cycle that keeps its local frame for the next one
ReallocSkipped(t) ==
    /\ pc[t] = "realloc"
    /\ Goto(t, "finish")
    /\ UNCHANGED <<arg, matcher_mutex, first_iteration, number_of_iters,
                   iter_num, previous_pose, current_pose, current_frame,
                   ref_frame, global_map, current_pub_pose, queue,
                   initial_trans, pose_out, tf_out, sent, dropped, handled>>

\* delete current_frame; current_frame = new NDTFrame(initial_pose,
\* param_frame_size, param_frame_size, param_frame_size, false)
Realloc(t) ==
    /\ pc[t] = "realloc"
    /\ current_frame' = NewFrame(initial_pose, param_frame_size,
                                 param_frame_size, FALSE)
    /\ Goto(t, "finish")
    /\ UNCHANGED <<arg, matcher_mutex, first_iteration, number_of_iters,
                   iter_num, previous_pose, current_pose, ref_frame,
                   global_map, current_pub_pose, queue, initial_trans,
                   pose_out, tf_out, sent, dropped, handled>>

\* an end of cycle that leaves first_iteration set
FinishKeepFirst(t) ==
    /\ pc[t] = "finish"
    /\ number_of_iters' = number_of_iters + 1
    /\ Goto(t, "unlock")
    /\ UNCHANGED <<arg, matcher_mutex, first_iteration, iter_num,
                   previous_pose, current_pose, current_frame, ref_frame,
                   global_map, current_pub_pose, queue, initial_trans,
                   pose_out, tf_out, sent, dropped, handled>>

\* ++number_of_iters; ...; first_iteration = false
Finish(t) ==
    /\ pc[t] = "finish"
    /\ number_of_iters' = number_of_iters + 1
    /\ first_iteration' = FALSE
    /\ Goto(t, "unlock")
    /\ UNCHANGED <<arg, matcher_mutex, iter_num, previous_pose, current_pose,
                   current_frame, ref_frame, global_map, current_pub_pose,
                   queue, initial_trans, pose_out, tf_out, sent, dropped,
                   handled>>

\* a return that leaves the mutex locked
UnlockSkipped(t) ==
    /\ pc[t] = "unlock"
    /\ Goto(t, AfterCall(t))
    /\ UNCHANGED <<arg, matcher_mutex, first_iteration, number_of_iters,
                   iter_num, previous_pose, current_pose, current_frame,
                   ref_frame, global_map, current_pub_pose, queue,
                   initial_trans, pose_out, tf_out, sent, dropped, handled>>

\* matcher_mutex.unlock(); return
Unlock(t) ==
    /\ pc[t] = "unlock"
    /\ matcher_mutex' = Free
    /\ Goto(t, AfterCall(t))
    /\ UNCHANGED <<arg, first_iteration, number_of_iters, iter_num,
                   previous_pose, current_pose, current_frame, ref_frame,
                   global_map, current_pub_pose, queue, initial_trans,
                   pose_out, tf_out, sent, dropped, handled>>

\* ---- the loop of main: while (ros::ok()) { spinOnce; publish; tf; sleep }
\* a spinOnce that runs the callback and leaves the scan in the queue
SpinOnceNoPop ==
    /\ pc[MainThread] = "spin"
    /\ IF queue # <<>>
       THEN /\ arg' = [arg EXCEPT ![MainThread] = Head(queue)]
            /\ Goto(MainThread, "lock")
       ELSE /\ Goto(MainThread, "publish")
            /\ UNCHANGED arg
    /\ UNCHANGED <<queue, matcher_mutex, first_iteration, number_of_iters,
                   iter_num, previous_pose, current_pose, current_frame,
                   ref_frame, global_map, current_pub_pose, initial_trans,
                   pose_out, tf_out, sent, dropped, handled>>

\* ros::spinOnce(): the callback of the queued scan, if any, runs in this
\* thread before spinOnce returns
SpinOnce ==
    /\ pc[MainThread] = "spin"
    /\ IF queue # <<>>
       THEN /\ arg' = [arg EXCEPT ![MainThread] = Head(queue)]
            /\ queue' = Tail(queue)
            /\ Goto(MainThread, "lock")
       ELSE /\ Goto(MainThread, "publish")
            /\ UNCHANGED <<arg, queue>>
    /\ UNCHANGED <<matcher_mutex, first_iteration, number_of_iters, iter_num,
                   previous_pose, current_pose, current_frame, ref_frame,
                   global_map, current_pub_pose, initial_trans, pose_out,
                   tf_out, sent, dropped, handled>>

\* pose_pub.publish(current_pub_pose)
PosePublish ==
    /\ pc[MainThread] = "publish"
    /\ pose_out' = current_pub_pose
    /\ Goto(MainThread, "tf")
    /\ UNCHANGED <<arg, matcher_mutex, first_iteration, number_of_iters,
                   iter_num, previous_pose, current_pose, current_frame,
                   ref_frame, global_map, current_pub_pose, queue,
                   initial_trans, tf_out, sent, dropped, handled>>

\* transform_.setOrigin(...); setRotation(q_); br.sendTransform(...); sleep
SendTransform ==
    /\ pc[MainThread] = "tf"
    /\ tf_out' = [x |-> current_pub_pose.x, y |-> current_pub_pose.y,
                  q |-> current_pub_pose.q, sent |-> TRUE]
    /\ Goto(MainThread, "spin")
    /\ UNCHANGED <<arg, matcher_mutex, first_iteration, number_of_iters,
                   iter_num, previous_pose, current_pose, current_frame,
                   ref_frame, global_map, current_pub_pose, queue,
                   initial_trans, pose_out, sent, dropped, handled>>

\* ros::ok() turns false: the loop ends and main runs to its end
Shutdown ==
    /\ pc[MainThread] = "spin"
    /\ Goto(MainThread, "done")
    /\ UNCHANGED <<arg, matcher_mutex, first_iteration, number_of_iters,
                   iter_num, previous_pose, current_pose, current_frame,
                   ref_frame, global_map, current_pub_pose, queue,
                   initial_trans, pose_out, tf_out, sent, dropped, handled>>

Cycle(t) ==
    \/ Lock(t) \/ Load(t) \/ Match(t) \/ Accept(t) \/ FuseRef(t)
    \/ FuseMap(t) \/ AddPose(t) \/ PubHdr(t) \/ PubX(t) \/ PubY(t)
    \/ PubOri(t) \/ Realloc(t) \/ Finish(t) \/ Unlock(t)

MainLoop == SpinOnce \/ PosePublish \/ SendTransform \/ Shutdown

\* the node as built: one thread runs the loop and, inside spinOnce, the
\* callback
Next == Arrive \/ Cycle(MainThread) \/ MainLoop

Spec == Init /\ [][Next]_vars

\* the node over a long run of scans, each published when the queue is empty
ArriveLong == queue = <<>> /\ \E r \in FewScanRanges : Publish(r, LongScans)

NextLong == ArriveLong \/ Cycle(MainThread) \/ MainLoop

SpecLong == Init /\ [][NextLong]_vars

\* the node over scans that make align turn the pose
ArriveTurn == \E r \in TurnScanRanges : Publish(r, MaxScans)

NextTurn == ArriveTurn \/ Cycle(MainThread) \/ MainLoop

SpecTurn == Init /\ [][NextTurn]_vars

\* scan_mathcher called by several threads at once, each call with the next
\* scan of the sensor
InvokeUpTo(t, limit) ==
    /\ pc[t] = "idle"
    /\ Len(sent) < limit
    /\ \E r \in FewScanRanges :
         LET scan == MakeScan(Len(sent) + 1, r) IN
         /\ sent' = Append(sent, scan)
         /\ arg' = [arg EXCEPT ![t] = scan]
    /\ Goto(t, "lock")
    /\ UNCHANGED <<matcher_mutex, first_iteration, number_of_iters, iter_num,
                   previous_pose, current_pose, current_frame, ref_frame,
                   global_map, current_pub_pose, queue, initial_trans,
                   pose_out, tf_out, dropped, handled>>

Invoke(t) == InvokeUpTo(t, CallerScans)

NextCallers == \E t \in Callers : Invoke(t) \/ Cycle(t)

SpecCallers == InitCallers /\ [][NextCallers]_vars

\* concurrent callers under fair scheduling: the calls keep running while one
\* of them can take a step (the owner of the mutex is never blocked), and a
\* thread waiting at lock() gets the mutex if it is free again and again
InvokeFair(t) == InvokeUpTo(t, FairScans)

NextFair == \E t \in Callers : InvokeFair(t) \/ Cycle(t)

FairCallers ==
    /\ InitCallers /\ [][NextFair]_vars
    /\ WF_vars(\E t \in Callers : Cycle(t))
    /\ \A t \in Callers : SF_vars(Lock(t))

\* ------------------------------------------------------------ properties
\* no thread is inside scan_mathcher
Quiet == \A t \in DOMAIN pc : pc[t] \notin InCycle \cup {"lock"}

Range(q) == {q[i] : i \in DOMAIN q}

Increasing(q) == \A i, j \in DOMAIN q : i < j => q[i] < q[j]

RECURSIVE CountIn(_, _)
CountIn(ps, S) ==
    IF ps = <<>> THEN 0
    ELSE (IF Head(ps) \in S THEN 1 ELSE 0) + CountIn(Tail(ps), S)

RECURSIVE Keep(_, _)
Keep(ps, S) ==
    IF ps = <<>> THEN <<>>
    ELSE (IF Head(ps) \in S THEN <<Head(ps)>> ELSE <<>>) \o Keep(Tail(ps), S)

\* the points the i-th handled scan puts into its local frame: its usable
\* samples, moved by the sensor mount in the frame built at start-up (the
\* first cycle's) and unmoved in the reallocated ones
LocalPointsOf(i) ==
    Keep(MapTransform(IF i = 1 THEN initial_trans ELSE ZeroPose,
                      ScanPoints(sent[handled[i]])),
         Extent(param_frame_size))

\* of those, the points that lie in the reference frame at the pose the
\* i-th trajectory record holds
RECURSIVE InBoundsUpTo(_)
InBoundsUpTo(i) ==
    IF i = 0 THEN 0
    ELSE CountIn(MapTransform(global_map.poses[i][2], LocalPointsOf(i)),
                 Extent(param_frame_size)) + InBoundsUpTo(i - 1)

\* C1: at most one thread is between matcher_mutex.lock() and
\* matcher_mutex.unlock() of scan_mathcher, however many threads call it at
\* once, and that thread owns the mutex
C1_OneCycleInCriticalSection ==
    \A t1, t2 \in DOMAIN pc :
        pc[t1] \in InCycle /\ pc[t2] \in InCycle
            => t1 = t2 /\ matcher_mutex = t1

\* a call waits at lock() while another call is inside the critical section
C1_Witness ==
    \E t1, t2 \in DOMAIN pc :
        t1 # t2 /\ pc[t1] \in InCycle /\ pc[t2] = "lock"

\* C2 as claimed: once every published scan has left the queue and no cycle
\* runs, the reference frame has received one fusion per published scan
C2_Original ==
    (Quiet /\ queue = <<>>) => Len(ref_frame.src) = Len(sent)

\* C2 as amended: when no cycle runs, the scans fused into the reference
\* frame are exactly the scans taken from the queue, each once and in the
\* order taken; their number is the number published less the number the
\* queue discarded or still holds; the frame's points are the in-bounds
\* points of those scans
C2_HandledScansFusedOnce ==
    Quiet =>
        /\ ref_frame.src = handled
        /\ Increasing(handled)
        /\ Len(ref_frame.src) = Len(sent) - Cardinality(dropped) - Len(queue)
        /\ Len(global_map.poses) = Len(handled)
        /\ NumPoints(ref_frame) = InBoundsUpTo(Len(handled))

\* a published scan was discarded, two were fused, none is pending
C2_Witness ==
    /\ Quiet /\ queue = <<>>
    /\ dropped # {}
    /\ Len(ref_frame.src) >= 2
    /\ NumPoints(ref_frame) > 0

\* C3 as claimed: scans are handled in arrival order and none is discarded
C3_Original == Increasing(handled) /\ dropped = {}

\* C3 as amended: the handled scans are handled in arrival order, a cycle
\* begins only after the cycle before it has appended its record; every
\* published scan is handled, discarded or queued; a scan is discarded only
\* when a later scan arrived before spinOnce took it, so the latest
\* published scan is never discarded
C3_HandledInArrivalOrder ==
    /\ Increasing(handled)
    /\ Len(handled) - Len(global_map.poses) \in {0, 1}
    /\ dropped \cap Range(handled) = {}
    /\ \A s \in 1..Len(sent) :
          \/ s \in dropped
          \/ s \in Range(handled)
          \/ \E i \in DOMAIN queue : queue[i].stamp = s
          \/ \E t \in DOMAIN pc : pc[t] = "lock" /\ arg[t].stamp = s
    /\ Len(sent) \notin dropped

\* a scan that arrived during a cycle was discarded for a later one, which
\* was then handled
C3_Witness ==
    \E s \in dropped :
        /\ \E i \in DOMAIN handled : handled[i] < s
        /\ \E i \in DOMAIN handled : handled[i] > s

CeilDiv(a, b) == (a + b - 1) \div b

\* C4 as claimed: when no cycle runs, previous_pose is the accepted pose and
\* the reference frame and global_map have each received one fusion per
\* completed cycle
C4_Original ==
    Quiet =>
        /\ previous_pose = current_pose
        /\ Len(ref_frame.src) = number_of_iters
        /\ Len(global_map.src) = number_of_iters

\* C4 as amended: after k completed cycles previous_pose is the accepted
\* pose (the pose of the last trajectory record), the reference frame has
\* received k fusions, one per scan, and global_map has received one fusion
\* for every tenth cycle, starting with the first: ceil(k / 10) fusions, of
\* the scans of cycles 1, 11, ...
C4_RefEveryCycleMapEveryTenth ==
    Quiet =>
        /\ previous_pose = current_pose
        /\ number_of_iters > 0 =>
              global_map.poses[number_of_iters][2] = current_pose
        /\ Len(ref_frame.src) = number_of_iters
        /\ ref_frame.src = handled
        /\ Len(global_map.src) =
              CeilDiv(number_of_iters, SAVE_DATA_TO_FILE_EACH_NUM_ITERS)
        /\ \A i \in DOMAIN global_map.src :
              global_map.src[i] =
                handled[(i - 1) * SAVE_DATA_TO_FILE_EACH_NUM_ITERS + 1]

\* eleven cycles are complete and global_map has received its second fusion
C4_Witness ==
    /\ Quiet
    /\ number_of_iters = SAVE_DATA_TO_FILE_EACH_NUM_ITERS + 1
    /\ Len(global_map.src) = 2
    /\ Len(ref_frame.src) = SAVE_DATA_TO_FILE_EACH_NUM_ITERS + 1
    /\ NumPoints(global_map) > 0

Degenerate(i) == ScanPoints(sent[global_map.poses[i][1]]) = <<>>

\* C6: a cycle whose local frame is empty after loading keeps the pose: the
\* pose it is about to accept is the previous pose, the trajectory record of
\* a scan without usable samples repeats the pose of the record before it
\* (the start-up pose for the first), the matching step always has a pose to
\* assign, the running cycle owns the mutex and the mutex is free whenever no
\* cycle runs
C6_DegenerateScanKeepsPose ==
    /\ \A t \in DOMAIN pc :
          /\ (pc[t] = "accept" /\ IsEmptyFrame(current_frame))
                => current_pose = previous_pose
          /\ pc[t] \in InCycle => matcher_mutex = t
          /\ pc[t] = "match" => MatchedPoses # {}
    /\ \A i \in DOMAIN global_map.poses :
          Degenerate(i) =>
              global_map.poses[i][2] =
                  IF i = 1 THEN ZeroPose ELSE global_map.poses[i - 1][2]
    /\ Quiet => matcher_mutex = Free /\ previous_pose = current_pose

\* a cycle after the pose has moved away from the start-up pose loaded a
\* scan without usable samples and is about to accept
C6_Witness ==
    \E t \in DOMAIN pc :
        /\ pc[t] = "accept"
        /\ ~first_iteration
        /\ ScanPoints(arg[t]) = <<>>
        /\ IsEmptyFrame(current_frame)
        /\ previous_pose # ZeroPose

\* C7 as claimed: the message just published carries, as a whole, the pose
\* accepted by the last completed cycle, or the start-up pose when no cycle
\* has completed (between PosePublish and SendTransform current_pose is that
\* pose)
C7_PublishedPoseIsAcceptedPose ==
    pc[MainThread] = "tf" =>
        /\ pose_out.x = current_pose[1]
        /\ pose_out.y = current_pose[2]
        /\ pose_out.q = QuatOfYaw(current_pose[3])

\* C8 as claimed: while a cycle holds the lock and has not yet accepted its
\* pose, a publish step is enabled
C8_Original ==
    (matcher_mutex # Free /\ pc[MainThread] \in {"load", "match", "accept"})
        => ENABLED PosePublish

\* C8 as amended: the publish loop and the cycle are one thread: no publish
\* step (PosePublish, SendTransform) is enabled while a cycle is in
\* progress; a publish step is enabled only with the mutex free, after the
\* cycle of that loop iteration, if any, has returned
C8_PublishOnlyBetweenCycles ==
    /\ (ENABLED PosePublish \/ ENABLED SendTransform)
          => matcher_mutex = Free /\ pc[MainThread] \notin InCycle
    /\ pc[MainThread] \in InCycle \cup {"lock"}
          => ~ENABLED PosePublish /\ ~ENABLED SendTransform

\* the loop is about to publish the pose of a cycle that has just returned,
\* with the next scan already waiting in the queue
C8_Witness ==
    /\ ENABLED PosePublish
    /\ number_of_iters >= 1
    /\ queue # <<>>
    /\ current_pub_pose.stamp = handled[Len(handled)]

AtLeast(f, g) == \A p \in DOMAIN f.pts : f.pts[p] <= g.pts[p]

SameConfig(f, g) ==
    /\ f.size = g.size /\ f.cell_side = g.cell_side
    /\ f.is_ref = g.is_ref /\ f.origin = g.origin
    /\ DOMAIN f.pts = DOMAIN g.pts

\* C9: the publish steps leave previous_pose, current_pose, ref_frame,
\* global_map and current_frame unchanged; a step that changes one of the
\* poses or one of the two long-lived frames is a step of a cycle that holds
\* the mutex; ref_frame and global_map keep their configuration, no cell of
\* theirs loses a point and neither loses a fused scan or a record
C9_FramesOnlyGrowUnderLock ==
    [][ /\ pc[MainThread] \in {"publish", "tf"} =>
              UNCHANGED <<previous_pose, current_pose, ref_frame, global_map,
                          current_frame>>
        /\ <<previous_pose, current_pose, ref_frame, global_map>>'
              # <<previous_pose, current_pose, ref_frame, global_map>> =>
              \E t \in DOMAIN pc :
                  /\ pc[t] \in InCycle
                  /\ matcher_mutex = t /\ matcher_mutex' = t
        /\ SameConfig(ref_frame, ref_frame')
        /\ SameConfig(global_map, global_map')
        /\ AtLeast(ref_frame, ref_frame')
        /\ AtLeast(global_map, global_map')
        /\ Len(ref_frame'.src) >= Len(ref_frame.src)
        /\ Len(global_map'.src) >= Len(global_map.src)
        /\ Len(global_map'.poses) >= Len(global_map.poses)
      ]_vars

\* the loop has published and broadcast after two cycles fused their scans
C9_Witness ==
    /\ pc[MainThread] = "spin"
    /\ Len(ref_frame.src) >= 2
    /\ tf_out.sent /\ pose_out.stamp = handled[Len(handled)]
    /\ NumPoints(ref_frame) > 0
    /\ NumPoints(global_map) > 0

\* C10: when a cycle loads its scan the local frame holds no point and no
\* scan; from the load to the reallocation it holds the scan of that cycle
\* alone; from the reallocation on, and whenever no cycle runs, it is empty
\* again: no local frame receives the scans of two cycles
C10_LocalFrameFreshEachCycle ==
    /\ Len(current_frame.src) <= 1
    /\ \A t \in DOMAIN pc :
          /\ pc[t] \in {"lock", "load", "finish", "unlock"} =>
                IsEmptyFrame(current_frame) /\ current_frame.src = <<>>
          /\ pc[t] \in InCycle \ {"load", "finish", "unlock"} =>
                current_frame.src = <<arg[t].stamp>>
    /\ Quiet => IsEmptyFrame(current_frame) /\ current_frame.src = <<>>

\* a later cycle is about to load its scan after an earlier cycle loaded
\* and fused points
C10_Witness ==
    \E t \in DOMAIN pc :
        /\ pc[t] = "load"
        /\ ~first_iteration
        /\ NumPoints(ref_frame) > 0
        /\ ScanPoints(arg[t]) # <<>>

\* positions of a cycle after its trajectory record has been appended
AfterRecord == {"pub_hdr", "pub_x", "pub_y", "pub_ori", "realloc", "finish",
                "unlock"}

\* C11: the trajectory has one record per completed cycle, in cycle order:
\* record i carries the stamp of the i-th handled scan; the record a cycle
\* appends carries its scan's stamp and the pose it accepted, and the
\* records before it are kept as they are; the frame that align reads
\* (ref_frame) holds no trajectory
C11_OneRecordPerCycle ==
    /\ [](/\ Quiet => Len(global_map.poses) = number_of_iters
          /\ \A i \in DOMAIN global_map.poses :
                global_map.poses[i][1] = handled[i]
          /\ \A t \in DOMAIN pc :
                pc[t] \in AfterRecord =>
                  /\ Len(global_map.poses) =
                       number_of_iters + (IF pc[t] = "unlock" THEN 0 ELSE 1)
                  /\ global_map.poses[Len(global_map.poses)]
                       = <<arg[t].stamp, current_pose>>
                  /\ previous_pose = current_pose
          /\ ref_frame.poses = <<>>)
    /\ [][\/ global_map'.poses = global_map.poses
          \/ \E t \in DOMAIN pc :
                /\ pc[t] = "add_pose"
                /\ global_map'.poses =
                     Append(global_map.poses, <<arg[t].stamp, previous_pose>>)
       ]_vars

\* three cycles are complete, a scan was discarded in between and the pose
\* moved: the records differ in stamp and in pose
C11_Witness ==
    /\ Quiet
    /\ number_of_iters >= 3
    /\ Len(global_map.poses) = number_of_iters
    /\ dropped # {}
    /\ global_map.poses[3][2] # global_map.poses[2][2]

\* the statements of scan_mathcher in program order
CycleOrder == <<"lock", "load", "match", "accept", "fuse_ref", "fuse_map",
                "add_pose", "pub_hdr", "pub_x", "pub_y", "pub_ori",
                "realloc", "finish", "unlock">>

FollowsInCycle(a, b) ==
    \E i \in 1..(Len(CycleOrder) - 1) :
        CycleOrder[i] = a /\ CycleOrder[i + 1] = b

\* C12: a call that holds the mutex only ever moves to the next statement
\* of the cycle, in program order, and leaves the cycle through unlock
\* alone; the owner of the mutex is always inside its cycle; under fair
\* scheduling, whenever the mutex is held or a call waits at lock(), there
\* comes a state where the mutex is free and no call waits any more (a
\* waiting call leaves lock() only by entering its cycle)
C12_CycleRunsToCompletion ==
    /\ [][\A t \in DOMAIN pc :
            pc[t] \in InCycle /\ pc'[t] # pc[t] =>
                \/ FollowsInCycle(pc[t], pc'[t])
                \/ /\ pc[t] = "unlock"
                   /\ pc'[t] = AfterCall(t)
                   /\ matcher_mutex' = Free
       ]_vars
    /\ [](matcher_mutex # Free => pc[matcher_mutex] \in InCycle)
    /\ (matcher_mutex # Free \/ \E t \in Callers : pc[t] = "lock")
           ~> (matcher_mutex = Free /\ \A t \in Callers : pc[t] # "lock")

\* a call is about to release the mutex of a completed later cycle while
\* another call waits at lock()
C12_Witness ==
    \E t1, t2 \in DOMAIN pc :
        /\ pc[t1] = "unlock" /\ matcher_mutex = t1
        /\ pc[t2] = "lock"
        /\ ScanPoints(arg[t1]) = <<>>
        /\ number_of_iters >= 1

\* the statements of a cycle that run before ref_frame->update
BeforeFusion == {"load", "match", "accept", "fuse_ref"}

\* all but the last element of a sequence
Front(q) == SubSeq(q, 1, Len(q) - 1)

\* C13: alignment precedes fusion. While a cycle has not yet fused, the
\* reference frame holds exactly the scans of the cycles before it, in order,
\* and not the scan of this cycle; so when cycle k >= 2 aligns, it aligns the
\* local frame of scan k alone against the points of scans 1..k-1, each at
\* the pose recorded for it; after the fusion the reference frame holds the
\* scan of this cycle too
C13_AlignBeforeFuse ==
    \A t \in DOMAIN pc :
        /\ pc[t] \in BeforeFusion =>
              /\ handled # <<>>
              /\ handled[Len(handled)] = arg[t].stamp
              /\ ref_frame.src = Front(handled)
              /\ arg[t].stamp \notin Range(ref_frame.src)
              /\ number_of_iters = Len(handled) - 1
              /\ Len(global_map.poses) = Len(handled) - 1
              /\ NumPoints(ref_frame) = InBoundsUpTo(Len(handled) - 1)
        /\ pc[t] \in {"match", "accept", "fuse_ref"} =>
              current_frame.src = <<arg[t].stamp>>
        /\ pc[t] \in InCycle \ BeforeFusion => ref_frame.src = handled

\* the third or a later cycle is about to align a scan with usable points
\* against a reference frame that holds points, and align can move the pose
C13_Witness ==
    \E t \in DOMAIN pc :
        /\ pc[t] = "match"
        /\ ~first_iteration
        /\ Len(handled) >= 3
        /\ NumPoints(ref_frame) > 0
        /\ NumPoints(current_frame) > 0
        /\ Cardinality(MatchedPoses) >= 2

\* C14: the first cycle does not align. first_iteration is set exactly until
\* the first cycle has run its last statement and is never set again; the
\* matching step of the first cycle leaves the start-up pose in current_pose
\* and that of every later cycle takes one result of align on ref_frame,
\* previous_pose and current_frame; the first cycle fuses its scan into an
\* empty reference frame at the start-up pose and records that pose
C14_FirstCycleSeedsOnly ==
    /\ [](/\ first_iteration <=> number_of_iters = 0
          /\ first_iteration =>
                /\ previous_pose = initial_pose
                /\ global_map.poses # <<>> =>
                      global_map.poses[1][2] = initial_pose
                /\ \A t \in DOMAIN pc :
                      /\ pc[t] \in {"accept", "fuse_ref"} =>
                            current_pose = initial_pose
                      /\ pc[t] \in BeforeFusion \cup {"lock"} =>
                            IsEmptyFrame(ref_frame) /\ ref_frame.src = <<>>
          /\ global_map.poses # <<>> =>
                global_map.poses[1] = <<handled[1], initial_pose>>)
    /\ [][/\ ~first_iteration => ~first_iteration'
          /\ \A t \in DOMAIN pc :
                pc[t] = "match" /\ pc'[t] # "match" =>
                    /\ pc'[t] = "accept"
                    /\ current_pose' \in
                          (IF first_iteration THEN {initial_pose}
                           ELSE AlignResults(ref_frame, previous_pose,
                                             current_frame))
          /\ current_pose' # current_pose =>
                \E t \in DOMAIN pc : pc[t] = "match" /\ pc'[t] = "accept"
       ]_vars

\* the first cycle has ended on a scan with usable points and a later cycle
\* has taken from align a pose other than the one it started from
C14_Witness ==
    /\ ~first_iteration
    /\ Len(handled) >= 2
    /\ ScanPoints(sent[handled[1]]) # <<>>
    /\ \E t \in DOMAIN pc : pc[t] = "accept" /\ current_pose # previous_pose

\* C15: every local frame a cycle loads a scan into has the configuration of
\* the one main built: extent param_frame_size, cell side param_cell_side and
\* the sensor-mount offset given to setTrans
C15_LocalFrameKeepsConfig ==
    \A t \in DOMAIN pc :
        pc[t] = "load" =>
            /\ current_frame.size = param_frame_size
            /\ current_frame.cell_side = param_cell_side
            /\ current_frame.trans = initial_trans

\* tf::getYaw: the yaw a quaternion built by setRPY(0, 0, yaw) stands for
YawOfQuat(q) == CHOOSE k \in -1..2 : QuatOfYaw(k) = q

\* the message carries the position and the yaw of the pose
Encodes(msg, pose) ==
    /\ msg.x = pose[1] /\ msg.y = pose[2] /\ msg.z = 0
    /\ msg.q \in {QuatOfYaw(k) : k \in -1..2}
    /\ YawOfQuat(msg.q) = NormAngle(pose[3])

\* the statements of a cycle that run after previous_pose = current_pose
AfterAccept == InCycle \ {"load", "match", "accept"}

\* C16: whenever no cycle runs previous_pose equals current_pose, and once a
\* cycle has completed current_pub_pose carries the stamp of the last handled
\* scan and the x, y and yaw of current_pose, which is also the pose of the
\* last trajectory record; inside a cycle the accepted pose stays in both
\* pose variables from the acceptance to the unlock, and the fusion into
\* ref_frame, the fusion into global_map, the trajectory record and the
\* message all take that one pose
C16_OnePosePerCycle ==
    /\ [](/\ Quiet => previous_pose = current_pose
          /\ Quiet /\ number_of_iters >= 1 =>
                /\ Encodes(current_pub_pose, current_pose)
                /\ current_pub_pose.stamp = handled[Len(handled)]
                /\ global_map.poses[Len(global_map.poses)]
                      = <<handled[Len(handled)], current_pose>>
          /\ \A t \in DOMAIN pc :
                /\ pc[t] \in AfterAccept => previous_pose = current_pose
                /\ pc[t] \in {"realloc", "finish", "unlock"} =>
                      /\ Encodes(current_pub_pose, previous_pose)
                      /\ current_pub_pose.stamp = arg[t].stamp
                      /\ global_map.poses[Len(global_map.poses)]
                            = <<arg[t].stamp, previous_pose>>)
    /\ [][\A t \in DOMAIN pc :
            /\ pc[t] = "fuse_ref" /\ pc'[t] # pc[t] =>
                  ref_frame' = update(ref_frame, previous_pose, current_frame)
            /\ pc[t] = "fuse_map" /\ pc'[t] # pc[t] =>
                  global_map' \in {global_map,
                                   update(global_map, previous_pose,
                                          current_frame)}
            /\ pc[t] \in AfterAccept =>
                  /\ previous_pose' = previous_pose
                  /\ current_pose' = current_pose
       ]_vars

\* two cycles have completed, the last one on a pose that align moved and
\* turned, and the message carries that pose
C16_Witness ==
    /\ Quiet
    /\ number_of_iters >= 2
    /\ current_pose[1] # 0
    /\ current_pose[3] # 0
    /\ current_pub_pose.q = QuatOfYaw(current_pose[3])
    /\ current_pub_pose.x = current_pose[1]

\* the statements of a cycle between the advance of iter_num and the
\* advance of number_of_iters
CounterAhead == {"add_pose", "pub_hdr", "pub_x", "pub_y", "pub_ori",
                 "realloc", "finish"}

\* C17: iter_num stays in 0 .. SAVE_DATA_TO_FILE_EACH_NUM_ITERS - 1 and is
\* the number of cycles modulo that period (one ahead between the two
\* increments of a cycle); global_map->update runs in the cycles whose
\* 0-based index is a multiple of the period, the first included, and in no
\* other step; after k completed cycles global_map has received ceil(k / 10)
\* fusions, the reference frame k, and the trajectory has k records
C17_MapFusedEveryTenthCycle ==
    /\ [](/\ iter_num \in 0..(SAVE_DATA_TO_FILE_EACH_NUM_ITERS - 1)
          /\ iter_num =
                (number_of_iters +
                   (IF \E t \in DOMAIN pc : pc[t] \in CounterAhead
                    THEN 1 ELSE 0)) % SAVE_DATA_TO_FILE_EACH_NUM_ITERS
          /\ Quiet =>
                /\ Len(global_map.src) =
                      CeilDiv(number_of_iters,
                              SAVE_DATA_TO_FILE_EACH_NUM_ITERS)
                /\ Len(ref_frame.src) = number_of_iters
                /\ Len(global_map.poses) = number_of_iters)
    /\ [][/\ \A t \in DOMAIN pc :
                pc[t] = "fuse_map" /\ pc'[t] # pc[t] =>
                    global_map' =
                      IF number_of_iters % SAVE_DATA_TO_FILE_EACH_NUM_ITERS = 0
                      THEN update(global_map, current_pose, current_frame)
                      ELSE global_map
          /\ global_map'.src # global_map.src =>
                \E t \in DOMAIN pc :
                    /\ pc[t] = "fuse_map"
                    /\ number_of_iters % SAVE_DATA_TO_FILE_EACH_NUM_ITERS = 0
                    /\ global_map'.src = Append(global_map.src, arg[t].stamp)
       ]_vars

\* the eleventh cycle has just fused into global_map, for the second time,
\* and iter_num has wrapped around and advanced again
C17_Witness ==
    \E t \in DOMAIN pc :
        /\ pc[t] = "add_pose"
        /\ number_of_iters = SAVE_DATA_TO_FILE_EACH_NUM_ITERS
        /\ iter_num = 1
        /\ global_map.src = <<handled[1], arg[t].stamp>>
        /\ Len(ref_frame.src) = SAVE_DATA_TO_FILE_EACH_NUM_ITERS + 1
        /\ Len(global_map.poses) = SAVE_DATA_TO_FILE_EACH_NUM_ITERS

=============================================================================
